---- MODULE Spec2Model ----
(***************************************************************************)
(* Model of netlify/edge-functions/ai-stream.ts: the edge function that    *)
(* relays one chat request to the OpenAI Responses API and streams the     *)
(* answer back.  One behaviour of the model is one invocation of the       *)
(* default-exported handler, from the arrival of the request to the end of *)
(* its response (or to the exception that leaves the handler).             *)
(*                                                                         *)
(* Strings that are only compared are TLA+ strings.  Texts whose content   *)
(* matters (the Authorization header, the upstream error text) are         *)
(* sequences of tokens, so that "contains the key" can be computed.        *)
(* A value that may be absent (a header, an environment variable) is a     *)
(* record [present, value].                                                *)
(***************************************************************************)
EXTENDS Integers, Sequences, FiniteSets, TLC

VARIABLES
  method,      \* request.method
  originHdr,   \* request.headers.get("origin")
  reqBody,     \* the request body: whether it parses, and the JSON value
  allowEnv,    \* the comma-separated entries of ALLOW_ORIGINS, trimmed
  keyEnv,      \* the environment variable OPENAI_API_KEY
  state,       \* position of the handler in the request
  awaiting,    \* TRUE while the handler is suspended in `await fetch`
  bodyRead,    \* request.json() was called
  keyRead,     \* Netlify.env.get("OPENAI_API_KEY") was called
  input,       \* the `input` array built from the payload
  outbound,    \* the calls made to fetch, in order
  upstream,    \* the responses fetch resolved with, in order
  responses,   \* the responses the handler returned, in order
  fault,       \* the exception that left the handler ("" if none)
  delivered,   \* bytes of the response body the client has received
  visited      \* the positions the handler has been in, in order

vars == <<method, originHdr, reqBody, allowEnv, keyEnv, state, awaiting,
          bodyRead, keyRead, input, outbound, upstream, responses, fault,
          delivered, visited>>

-----------------------------------------------------------------------------
(* Bounds of the model *)

MaxMsgs == 2
MaxBody == 2

-----------------------------------------------------------------------------
(* Values of the request and of the configuration *)

Absent == [present |-> FALSE, value |-> ""]
Some(v) == [present |-> TRUE, value |-> v]

Methods == {"OPTIONS", "POST"}

OriginA == "https://app.example"
OriginB == "https://admin.example"
OriginC == "https://evil.example"

Origins == {Absent, Some(""), Some(OriginA), Some(OriginC)}

AllowEnvs == {<<"">>, <<OriginA, "", OriginB>>}

SecretKey == "sk-secret"

KeyEnvs == {Absent, Some(""), Some(SecretKey)}

JNull == [t |-> "null", role |-> "", content |-> ""]
JMsg(r, c) == [t |-> "obj", role |-> r, content |-> c]

Messages == {JMsg("user", "hi"), JMsg("assistant", "yo"), JMsg("system", "hi")}

Elems == {JNull} \cup Messages

SeqsUpTo(S, n) == UNION {[1..k -> S] : k \in 0..n}

MUndef == [t |-> "undef", items |-> <<>>]
MNull == [t |-> "null", items |-> <<>>]
MStr == [t |-> "str", items |-> <<>>]
MArr(s) == [t |-> "arr", items |-> s]

MessagesValues == {MUndef, MNull, MStr} \cup {MArr(s) : s \in SeqsUpTo(Elems, MaxMsgs)}

SystemValues == {Absent, Some(""), Some("be brief")}

PNull == [t |-> "null", messages |-> MUndef, system |-> Absent]
PNum == [t |-> "num", messages |-> MUndef, system |-> Absent]
PObj(m, s) == [t |-> "obj", messages |-> m, system |-> s]

Payloads == {PNull, PNum} \cup {PObj(m, s) : m \in MessagesValues, s \in SystemValues}

Malformed == [parses |-> FALSE, val |-> PNull]

ReqBodies == {Malformed} \cup {[parses |-> TRUE, val |-> p] : p \in Payloads}

-----------------------------------------------------------------------------
(* The allow-list and the origin policy *)

ALLOW == SelectSeq(allowEnv, LAMBDA s : s # "")

Includes(arr, x) == \E i \in 1..Len(arr) : arr[i] = x

\* Mutant: the allow-list is never consulted.
corsOriginReflect(origin) ==
  IF ~origin.present \/ origin.value = "" THEN "*" ELSE origin.value

corsOrigin(origin) ==
  IF ~origin.present \/ origin.value = "" THEN "*"
  ELSE IF Len(ALLOW) = 0 THEN origin.value
  ELSE IF Includes(ALLOW, origin.value) THEN origin.value
  ELSE "null"

allowOrigin == corsOrigin(originHdr)

-----------------------------------------------------------------------------
(* Truthiness of an optional string, as `if (x)` and `x ? a : b` test it *)

Truthy(opt) == opt.present /\ opt.value # ""

-----------------------------------------------------------------------------
(* Responses.  new Response(body, {status, headers}) throws a RangeError   *)
(* for a status outside 200..599 and a TypeError for a body given with a   *)
(* null-body status; the default status is 200.                            *)

NoBody == [kind |-> "null", error |-> "", hasDetail |-> FALSE, detail |-> <<>>, bytes |-> <<>>]

JsonError(e) == [kind |-> "json", error |-> e, hasDetail |-> FALSE, detail |-> <<>>, bytes |-> <<>>]

JsonErrorDetail(e, d) == [kind |-> "json", error |-> e, hasDetail |-> TRUE, detail |-> d, bytes |-> <<>>]

\* Mutant: the stream is re-framed, its first chunk lost.
StreamBodyTail(b) ==
  [kind |-> "stream", error |-> "", hasDetail |-> FALSE, detail |-> <<>>,
   bytes |-> IF Len(b) = 0 THEN b ELSE Tail(b)]

StreamBody(b) == [kind |-> "stream", error |-> "", hasDetail |-> FALSE, detail |-> <<>>, bytes |-> b]

NullBodyStatus(s) == s \in {101, 103, 204, 205, 304}

ResponseThrows(body, status) ==
  IF status < 200 \/ status > 599 THEN "RangeError"
  ELSE IF body.kind # "null" /\ NullBodyStatus(status) THEN "TypeError"
  ELSE ""

Response(body, status, headers) == [status |-> status, headers |-> headers, body |-> body]

DefaultStatus == 200

\* Mutant: the preflight answer forgets its cache duration.
PreflightHeadersNoMaxAge ==
  ("Access-Control-Allow-Origin" :> allowOrigin) @@
  ("Access-Control-Allow-Methods" :> "POST, OPTIONS") @@
  ("Access-Control-Allow-Headers" :> "Content-Type")

PreflightHeaders ==
  ("Access-Control-Allow-Origin" :> allowOrigin) @@
  ("Access-Control-Allow-Methods" :> "POST, OPTIONS") @@
  ("Access-Control-Allow-Headers" :> "Content-Type") @@
  ("Access-Control-Max-Age" :> "86400")

JsonHeaders ==
  ("Content-Type" :> "application/json") @@
  ("Access-Control-Allow-Origin" :> allowOrigin)

StreamHeaders ==
  ("Content-Type" :> "text/event-stream; charset=utf-8") @@
  ("Cache-Control" :> "no-cache, no-transform") @@
  ("Connection" :> "keep-alive") @@
  ("X-Accel-Buffering" :> "no") @@
  ("Access-Control-Allow-Origin" :> allowOrigin)

-----------------------------------------------------------------------------
(* const { messages = [], system } = payload, and the `input` array *)

DestructureThrows(p) == p.t = "null"

messagesOf(p) == IF p.messages.t = "undef" THEN MArr(<<>>) ELSE p.messages

MapThrows(m) ==
  \/ m.t # "arr"
  \/ \E i \in 1..Len(m.items) : m.items[i].t = "null"

TransformThrows(p) == DestructureThrows(p) \/ MapThrows(messagesOf(p))

BlockType(role) == IF role = "assistant" THEN "output_text" ELSE "input_text"

Block(m) == [role |-> m.role, content |-> <<[type |-> BlockType(m.role), text |-> m.content]>>]

SystemBlock(text) == [role |-> "system", content |-> <<[type |-> "input_text", text |-> text]>>]

SystemPart(system) == IF Truthy(system) THEN <<SystemBlock(system.value)>> ELSE <<>>

MessagesPart(items) == [i \in 1..Len(items) |-> Block(items[i])]

\* Mutant: the system block is appended instead of prepended.
BuildInputSystemLast(p) == MessagesPart(messagesOf(p).items) \o SystemPart(p.system)

BuildInput(p) == SystemPart(p.system) \o MessagesPart(messagesOf(p).items)

-----------------------------------------------------------------------------
(* The call to the Responses API and what may come back *)

OPENAI_URL == "https://api.openai.com/v1/responses"

UpstreamRequest(apiKey, inp) ==
  [url |-> OPENAI_URL,
   method |-> "POST",
   Authorization |-> <<"Bearer", apiKey>>,
   ContentType |-> "application/json",
   Accept |-> "text/event-stream",
   body |-> [model |-> "gpt-5", effort |-> "low", stream |-> TRUE, input |-> inp]]

UpstreamStatuses == {0, 200, 204, 304, 401}

Ok(status) == status >= 200 /\ status <= 299

\* What the upstream can send: event data, or the credential it was given.
Chunks(call) == {"data: hi", call.Authorization[2]}

UpstreamResponses(call) ==
  {[status |-> s, hasBody |-> FALSE, content |-> <<>>, readFails |-> FALSE] :
      s \in UpstreamStatuses}
  \cup
  {[status |-> s, hasBody |-> TRUE, content |-> c, readFails |-> FALSE] :
      s \in UpstreamStatuses, c \in SeqsUpTo(Chunks(call), MaxBody)}
  \cup
  {[status |-> s, hasBody |-> TRUE, content |-> c, readFails |-> TRUE] :
      s \in {x \in UpstreamStatuses : ~Ok(x)}, c \in SeqsUpTo(Chunks(call), MaxBody)}

\* What the pending call to fetch can resolve with.
Resolutions == IF Len(outbound) = 0 THEN {} ELSE UpstreamResponses(outbound[Len(outbound)])

\* await upstream.text().catch(() => "")
ErrorText(u) == IF u.hasBody /\ ~u.readFails THEN u.content ELSE <<>>

ErrorStatus(u) == IF u.status = 0 THEN 502 ELSE u.status

-----------------------------------------------------------------------------
Init ==
  /\ method \in Methods
  /\ originHdr \in Origins
  /\ reqBody \in ReqBodies
  /\ allowEnv \in AllowEnvs
  /\ keyEnv \in KeyEnvs
  /\ state = "Received"
  /\ awaiting = FALSE
  /\ bodyRead = FALSE
  /\ keyRead = FALSE
  /\ input = <<>>
  /\ outbound = <<>>
  /\ upstream = <<>>
  /\ responses = <<>>
  /\ fault = ""
  /\ delivered = <<>>
  /\ visited = <<"Received">>


-----------------------------------------------------------------------------
(* The steps of the handler *)

Enter(s) ==
  /\ state' = s
  /\ visited' = Append(visited, s)

Return(r, s) ==
  /\ responses' = Append(responses, r)
  /\ Enter(s)

Throw(e) ==
  /\ fault' = e
  /\ Enter("Fault")

Preflight ==
  /\ state = "Received"
  /\ method = "OPTIONS"
  /\ Return(Response(NoBody, 204, PreflightHeaders), "Preflight")
  /\ UNCHANGED <<method, originHdr, reqBody, allowEnv, keyEnv, awaiting, bodyRead,
                 keyRead, input, outbound, upstream, fault, delivered>>

ParseError ==
  /\ state = "Received"
  /\ method # "OPTIONS"
  /\ ~reqBody.parses
  /\ bodyRead' = TRUE
  /\ Return(Response(JsonError("Invalid JSON"), 400, JsonHeaders), "ParseError")
  /\ UNCHANGED <<method, originHdr, reqBody, allowEnv, keyEnv, awaiting,
                 keyRead, input, outbound, upstream, fault, delivered>>

Transform ==
  /\ state = "Received"
  /\ method # "OPTIONS"
  /\ reqBody.parses
  /\ bodyRead' = TRUE
  /\ IF TransformThrows(reqBody.val)
       THEN /\ Throw("TypeError")
            /\ UNCHANGED input
       ELSE /\ input' = BuildInput(reqBody.val)
            /\ Enter("TransformOK")
            /\ UNCHANGED fault
  /\ UNCHANGED <<method, originHdr, reqBody, allowEnv, keyEnv, awaiting,
                 keyRead, outbound, upstream, responses, delivered>>

ConfigError ==
  /\ state = "TransformOK"
  /\ ~awaiting
  /\ keyRead' = TRUE
  /\ ~Truthy(keyEnv)
  /\ Return(Response(JsonError("Missing OPENAI_API_KEY"), 500, JsonHeaders), "ConfigError")
  /\ UNCHANGED <<method, originHdr, reqBody, allowEnv, keyEnv, awaiting, bodyRead,
                 input, outbound, upstream, fault, delivered>>

CallUpstream ==
  /\ state = "TransformOK"
  /\ ~awaiting
  /\ keyRead' = TRUE
  /\ Truthy(keyEnv)
  /\ outbound' = Append(outbound, UpstreamRequest(keyEnv.value, input))
  /\ awaiting' = TRUE
  /\ UNCHANGED <<method, originHdr, reqBody, allowEnv, keyEnv, state, bodyRead,
                 input, upstream, responses, fault, delivered, visited>>

FetchRejects ==
  /\ state = "TransformOK"
  /\ awaiting
  /\ awaiting' = FALSE
  /\ Throw("NetworkError")
  /\ UNCHANGED <<method, originHdr, reqBody, allowEnv, keyEnv, bodyRead,
                 keyRead, input, outbound, upstream, responses, delivered>>

UpstreamError(u) ==
  /\ state = "TransformOK"
  /\ awaiting
  /\ ~Ok(u.status) \/ ~u.hasBody
  /\ awaiting' = FALSE
  /\ upstream' = Append(upstream, u)
  /\ LET body == JsonErrorDetail("OpenAI upstream error", ErrorText(u))
         status == ErrorStatus(u)
     IN IF ResponseThrows(body, status) # ""
          THEN /\ Throw(ResponseThrows(body, status))
               /\ UNCHANGED responses
          ELSE /\ Return(Response(body, status, JsonHeaders), "UpstreamError")
               /\ UNCHANGED fault
  /\ UNCHANGED <<method, originHdr, reqBody, allowEnv, keyEnv, bodyRead,
                 keyRead, input, outbound, delivered>>

Streaming(u) ==
  /\ state = "TransformOK"
  /\ awaiting
  /\ Ok(u.status) /\ u.hasBody
  /\ awaiting' = FALSE
  /\ upstream' = Append(upstream, u)
  /\ Return(Response(StreamBody(u.content), DefaultStatus, StreamHeaders), "Streaming")
  /\ UNCHANGED <<method, originHdr, reqBody, allowEnv, keyEnv, bodyRead,
                 keyRead, input, outbound, fault, delivered>>

\* The runtime pulls the next chunk of the response body for the client.
Relay ==
  /\ state = "Streaming"
  /\ Len(delivered) < Len(responses[1].body.bytes)
  /\ delivered' = Append(delivered, responses[1].body.bytes[Len(delivered) + 1])
  /\ UNCHANGED <<method, originHdr, reqBody, allowEnv, keyEnv, state, awaiting,
                 bodyRead, keyRead, input, outbound, upstream, responses, fault,
                 visited>>

\* The response has been handed to the runtime and its body is exhausted.
Finish ==
  /\ state \in {"Preflight", "ParseError", "ConfigError", "UpstreamError", "Streaming"}
  /\ state = "Streaming" => delivered = responses[1].body.bytes
  /\ Enter("Terminal")
  /\ UNCHANGED <<method, originHdr, reqBody, allowEnv, keyEnv, awaiting, bodyRead,
                 keyRead, input, outbound, upstream, responses, fault, delivered>>

Next ==
  \/ Preflight
  \/ ParseError
  \/ Transform
  \/ ConfigError
  \/ CallUpstream
  \/ FetchRejects
  \/ \E u \in Resolutions : UpstreamError(u)
  \/ \E u \in Resolutions : Streaming(u)
  \/ Relay
  \/ Finish

Spec == Init /\ [][Next]_vars

-----------------------------------------------------------------------------
(* Vocabulary of the properties *)

HasHeader(r, name, v) == name \in DOMAIN r.headers /\ r.headers[name] = v

Finished == state \in {"Terminal", "Fault"}

Visited(s) == \E i \in 1..Len(visited) : visited[i] = s

AllowSet == {allowEnv[i] : i \in 1..Len(allowEnv)} \ {""}

-----------------------------------------------------------------------------
\* C1: for every request and every upstream behaviour, no exception leaves
\* the handler: every failure becomes one of the structured JSON error
\* responses, and a rejected fetch becomes the 'OpenAI upstream error'
\* response with an empty detail.
C1_NoExceptionPropagates ==
  /\ fault = ""
  /\ Finished => Len(responses) = 1

-----------------------------------------------------------------------------
\* C2 (as stated): every response carries Access-Control-Allow-Origin, equal
\* to '*' when no Origin header is present, to the incoming origin when the
\* allow-list is empty, and otherwise to the incoming origin if it is in the
\* allow-list and to 'null' if it is not.
C2_AllowOriginAsStated ==
  \A i \in 1..Len(responses) :
    HasHeader(responses[i], "Access-Control-Allow-Origin",
      IF ~originHdr.present THEN "*"
      ELSE IF AllowSet = {} THEN originHdr.value
      ELSE IF originHdr.value \in AllowSet THEN originHdr.value
      ELSE "null")

\* C2 (amended): every response carries Access-Control-Allow-Origin, equal to
\* '*' when the Origin header is absent or empty, to the incoming origin when
\* the allow-list is empty, and otherwise to the incoming origin if it is in
\* the allow-list and to 'null' if it is not.
C2_AllowOrigin ==
  \A i \in 1..Len(responses) :
    HasHeader(responses[i], "Access-Control-Allow-Origin",
      IF ~originHdr.present \/ originHdr.value = "" THEN "*"
      ELSE IF AllowSet = {} THEN originHdr.value
      ELSE IF originHdr.value \in AllowSet THEN originHdr.value
      ELSE "null")

\* C2 witness: a streaming response was returned to an origin that is not in
\* a non-empty allow-list, and it carries the value 'null'.
C2_Witness ==
  /\ state = "Streaming"
  /\ originHdr.present /\ originHdr.value # ""
  /\ AllowSet # {} /\ originHdr.value \notin AllowSet
  /\ Len(responses) = 1
  /\ HasHeader(responses[1], "Access-Control-Allow-Origin", "null")

-----------------------------------------------------------------------------
\* C3: the API key occurs in no response: not in a header, not in the error
\* or detail of a JSON body, not in the bytes of a streamed body.
C3_KeyNeverInResponse ==
  Truthy(keyEnv) =>
    \A i \in 1..Len(responses) :
      /\ \A h \in DOMAIN responses[i].headers : responses[i].headers[h] # keyEnv.value
      /\ responses[i].body.error # keyEnv.value
      /\ ~Includes(responses[i].body.detail, keyEnv.value)
      /\ ~Includes(responses[i].body.bytes, keyEnv.value)

-----------------------------------------------------------------------------
\* C4: an OPTIONS request, whatever its body, origin and key configuration,
\* gets status 204 with no body and the three preflight headers, and nothing
\* else happens: the body is not parsed, the key is not looked up, fetch is
\* not called.
C4_Preflight ==
  method = "OPTIONS" =>
    /\ ~bodyRead
    /\ ~keyRead
    /\ Len(outbound) = 0
    /\ fault = ""
    /\ state \in {"Received", "Preflight", "Terminal"}
    /\ state # "Received" =>
         /\ Len(responses) = 1
         /\ responses[1].status = 204
         /\ responses[1].body.kind = "null"
         /\ HasHeader(responses[1], "Access-Control-Allow-Methods", "POST, OPTIONS")
         /\ HasHeader(responses[1], "Access-Control-Allow-Headers", "Content-Type")
         /\ HasHeader(responses[1], "Access-Control-Max-Age", "86400")

\* C4 witness: an OPTIONS request with an unparseable body and no key
\* configured has been answered.
C4_Witness ==
  /\ method = "OPTIONS"
  /\ ~reqBody.parses
  /\ ~keyEnv.present
  /\ originHdr.present /\ originHdr.value # ""
  /\ state = "Terminal"
  /\ Len(responses) = 1

-----------------------------------------------------------------------------
\* A well-formed body: an object whose `messages` is missing or an array of
\* message objects, and whose `system` is missing or a string.
WellFormed(b) ==
  /\ b.parses
  /\ b.val.t = "obj"
  /\ b.val.messages.t \in {"undef", "arr"}
  /\ \A i \in 1..Len(b.val.messages.items) : b.val.messages.items[i].t = "obj"

\* The input has `k` leading blocks and then one block per message, in the
\* order of the messages, with the role and the text of the message and the
\* type its role asks for.
MirrorsMessages(k) ==
  LET msgs == reqBody.val.messages.items
  IN /\ Len(input) = k + Len(msgs)
     /\ \A i \in 1..Len(msgs) :
          /\ input[k + i].role = msgs[i].role
          /\ Len(input[k + i].content) = 1
          /\ input[k + i].content[1].text = msgs[i].content
          /\ input[k + i].content[1].type =
               (IF msgs[i].role = "assistant" THEN "output_text" ELSE "input_text")

LeadsWithSystem ==
  /\ Len(input) >= 1
  /\ input[1].role = "system"
  /\ input[1].content = <<[type |-> "input_text", text |-> reqBody.val.system.value]>>

\* C5 (as stated): for a well-formed body the input mirrors the messages in
\* order, with a system block first when `system` is present and none when it
\* is absent.
C5_InputAsStated ==
  (WellFormed(reqBody) /\ Visited("TransformOK")) =>
    IF reqBody.val.system.present
      THEN LeadsWithSystem /\ MirrorsMessages(1)
      ELSE MirrorsMessages(0)

\* C5 (amended): for a well-formed body the input mirrors the messages in
\* order, with a system block first when `system` is a non-empty string and
\* none when it is absent or the empty string.
C5_Input ==
  (WellFormed(reqBody) /\ Visited("TransformOK")) =>
    IF reqBody.val.system.present /\ reqBody.val.system.value # ""
      THEN LeadsWithSystem /\ MirrorsMessages(1)
      ELSE MirrorsMessages(0)

\* C5 witness: a body with a system prompt and a user message followed by an
\* assistant message has been transformed.
C5_Witness ==
  /\ Visited("TransformOK")
  /\ WellFormed(reqBody)
  /\ reqBody.val.system.present /\ reqBody.val.system.value # ""
  /\ Len(reqBody.val.messages.items) = 2
  /\ reqBody.val.messages.items[1].role = "user"
  /\ reqBody.val.messages.items[2].role = "assistant"
  /\ Len(input) = 3

-----------------------------------------------------------------------------
\* C6: when the upstream answers 2xx with a body, the response has status
\* 200 and Content-Type 'text/event-stream; charset=utf-8', its body is the
\* upstream stream, and the client receives the upstream chunks in order,
\* nothing added and nothing dropped.
C6_StreamingIdentity ==
  (Len(upstream) = 1 /\ Ok(upstream[1].status) /\ upstream[1].hasBody) =>
    /\ Len(responses) = 1
    /\ responses[1].status = 200
    /\ HasHeader(responses[1], "Content-Type", "text/event-stream; charset=utf-8")
    /\ responses[1].body.kind = "stream"
    /\ responses[1].body.bytes = upstream[1].content
    /\ Len(delivered) <= Len(upstream[1].content)
    /\ delivered = SubSeq(upstream[1].content, 1, Len(delivered))
    /\ state = "Terminal" => delivered = upstream[1].content

\* C6 witness: a stream of two different chunks has been delivered in full.
C6_Witness ==
  /\ state = "Terminal"
  /\ Len(upstream) = 1 /\ Ok(upstream[1].status) /\ upstream[1].hasBody
  /\ Len(delivered) = 2
  /\ delivered[1] # delivered[2]
  /\ delivered = upstream[1].content

-----------------------------------------------------------------------------
\* C7: when the upstream answer is not successful or has no body, the
\* handler responds with the upstream status (502 if there is none) and the
\* JSON body { error: 'OpenAI upstream error', detail }, where detail is the
\* upstream text, or the empty string if reading it fails.
C7_UpstreamErrorResponse ==
  (Len(upstream) = 1 /\ (~Ok(upstream[1].status) \/ ~upstream[1].hasBody)) =>
    /\ fault = ""
    /\ Len(responses) = 1
    /\ responses[1].status = (IF upstream[1].status = 0 THEN 502 ELSE upstream[1].status)
    /\ responses[1].body.kind = "json"
    /\ responses[1].body.error = "OpenAI upstream error"
    /\ responses[1].body.hasDetail
    /\ responses[1].body.detail =
         (IF upstream[1].hasBody /\ ~upstream[1].readFails THEN upstream[1].content ELSE <<>>)

-----------------------------------------------------------------------------
\* C8: a non-OPTIONS request whose body parses as JSON, with no API key
\* configured, is answered with status 500, content type application/json
\* and { error: 'Missing OPENAI_API_KEY' }, and fetch is not called.
C8_MissingKey ==
  (method # "OPTIONS" /\ reqBody.parses /\ ~keyEnv.present) =>
    /\ Len(outbound) = 0
    /\ Finished =>
         /\ Len(responses) = 1
         /\ responses[1].status = 500
         /\ HasHeader(responses[1], "Content-Type", "application/json")
         /\ responses[1].body.kind = "json"
         /\ responses[1].body.error = "Missing OPENAI_API_KEY"
         /\ ~responses[1].body.hasDetail

-----------------------------------------------------------------------------
\* The moves of Received -> (Preflight | ParseError | TransformOK) ->
\* (ConfigError | UpstreamError | Streaming) -> Terminal.
Moves ==
  {<<"Received", "Preflight">>, <<"Received", "ParseError">>, <<"Received", "TransformOK">>,
   <<"TransformOK", "ConfigError">>, <<"TransformOK", "UpstreamError">>,
   <<"TransformOK", "Streaming">>,
   <<"Preflight", "Terminal">>, <<"ParseError", "Terminal">>, <<"ConfigError", "Terminal">>,
   <<"UpstreamError", "Terminal">>, <<"Streaming", "Terminal">>}

\* C9: every request follows the state machine, the checks coming in the
\* order method, body, key, upstream: a malformed body gets 400 'Invalid
\* JSON' whatever the key; a request has one outcome, revisits no state, and
\* calls the upstream at most once, only after TransformOK with a key.
C9_StateMachine ==
  /\ \A i \in 1..(Len(visited) - 1) : <<visited[i], visited[i + 1]>> \in Moves
  /\ \A i, j \in 1..Len(visited) : visited[i] = visited[j] => i = j
  /\ Len(responses) <= 1
  /\ state \notin {"Received", "TransformOK"} => Len(responses) = 1
  /\ Len(outbound) <= 1
  /\ Len(outbound) = 1 => Visited("TransformOK") /\ Truthy(keyEnv)
  /\ (method # "OPTIONS" /\ ~reqBody.parses /\ state # "Received") =>
       /\ responses[1].status = 400
       /\ responses[1].body.error = "Invalid JSON"
       /\ ~keyRead

-----------------------------------------------------------------------------
====
